---------------------------- MODULE Spec2Model ----------------------------
(***************************************************************************)
(* A model of the alloha allocators: the address arithmetic of core.c, the *)
(* header-chained stack allocator of stack.c and the bump/resize/scratch   *)
(* arena of arena.c.  Addresses and sizes are machine words: every sum and *)
(* difference the code computes in usize/uptr is taken modulo 2^WordBits   *)
(* and every u32 value modulo 2^U32Bits (the widths are scaled down from   *)
(* 64 and 32 so that the state space stays finite and small).              *)
(***************************************************************************)
EXTENDS Integers, Naturals, Sequences, FiniteSets, TLC

(***************************************************************************)
(* Bounds of the model.                                                    *)
(***************************************************************************)
\* Width of usize / uptr (64 in the source, scaled).
WordBits == 16
\* Width of u32 (32 in the source, scaled).
U32Bits == 8
\* Capacity, in bytes, of the buffer handed to the stack allocator.
StackCapacity == 96
\* Capacity, in bytes, of the buffer handed to the arena allocator.
ArenaCapacity == 16
\* Largest address given to the pure functions of core.c.
MaxAddr == 40
\* Most scratch checkpoints a caller of the arena holds at once.
MaxScratch == 2
\* The most requests a caller makes before it resets the arena and repeats them.
MaxRequests == 3
\* The most times a caller destroys one allocator.
MaxDestroys == 2

(***************************************************************************)
(* Program constants.                                                      *)
(***************************************************************************)
\* sizeof(struct stack_header): three word-sized slots (padding, capacity,
\* previous_offset).
HeaderSize == 24
\* alloha_alignof(struct stack_header).
HeaderAlign == 8
\* ALLOHA_DEFAULT_ALIGNMENT == 2 * sizeof(void*).
DefaultAlignment == 16

WordMod == 2 ^ WordBits
U32Mod == 2 ^ U32Bits
\* The null pointer.
NULL == 0
\* Address of the first byte of the buffer (aligned to every alignment used).
BufBase == 4 * DefaultAlignment

\* Conversions to the unsigned types: the value modulo the type's range.
usize(x) == x % WordMod
u32(x) == x % U32Mod
\* The value of a word read as the signed type of the same width.
isize(x) == IF usize(x) >= WordMod \div 2 THEN usize(x) - WordMod ELSE usize(x)

VARIABLES
    core_in,      \* the arguments given to a function of core.c
    core_out,     \* the function applied to them and its result
    stack,        \* struct stack: buf, capacity, offset, previous_offset
    stack_mem,    \* the header words stored in the stack's buffer, by address
    stack_live,   \* the blocks handed out and not yet deallocated, oldest first
    stack_call,   \* the last call made on the stack, its arguments and result
    stack_freed,  \* blocks deallocated since the last allocation, by address
    arena,        \* arena_alloc_t: buf, capacity, offset, previous_offset
    arena_tmp,    \* the temporary_arena_alloc_t values the caller holds
    arena_call,   \* the last call made on the arena, its arguments and result
    arena_mem,    \* the bytes of the arena's buffer, by offset
    arena_live,   \* the blocks a caller of the arena keeps a record of
    arena_replay, \* a caller that repeats its requests after a reset
    owned_stack,  \* stack_alloc_t: a stack that may own its buffer
    heap          \* the calls of free and of destroy made so far

core_vars == <<core_in, core_out>>
stack_vars == <<stack, stack_mem, stack_live, stack_call, stack_freed>>
arena_vars == <<arena, arena_tmp, arena_call, arena_mem, arena_live>>
life_vars == <<arena_replay, owned_stack, heap>>
vars == <<core_in, core_out, stack, stack_mem, stack_live, stack_call, stack_freed,
          arena, arena_tmp, arena_call, arena_mem, arena_live, arena_replay,
          owned_stack, heap>>

(***************************************************************************)
(* core.c                                                                  *)
(***************************************************************************)
\* The bitwise and of two naturals (the C operator &).
RECURSIVE BitAnd(_, _)
BitAnd(a, b) ==
    IF a = 0 \/ b = 0 THEN 0
    ELSE (a % 2) * (b % 2) + 2 * BitAnd(a \div 2, b \div 2)

alloha_is_power_of_two(x) == (x > 0) /\ (BitAnd(x, x - 1) = 0)

usize_wrap_sub(lhs, rhs) ==
    LET res == isize(isize(lhs) - isize(rhs))
    IN  IF res <= 0 THEN 0 ELSE usize(res)

\* Whether (isize)lhs - (isize)rhs lies outside the range of isize, where the
\* subtraction of usize_wrap_sub is undefined.
usize_wrap_sub_overflows(lhs, rhs) ==
    LET res == isize(lhs) - isize(rhs)
    IN  res < -(WordMod \div 2) \/ res > (WordMod \div 2) - 1

\* What usize_wrap_sub may return: where the signed subtraction overflows, a
\* build may wrap it or may compare the operands in its place.
usize_wrap_sub_outcomes(lhs, rhs) ==
    IF usize_wrap_sub_overflows(lhs, rhs)
    THEN {usize_wrap_sub(lhs, rhs),
          IF isize(lhs) <= isize(rhs) THEN 0 ELSE usize(lhs - rhs)}
    ELSE {usize_wrap_sub(lhs, rhs)}

alloha_ptr_add(ptr, off) == IF ptr # NULL THEN usize(ptr + off) ELSE NULL
alloha_ptr_sub(ptr, off) == IF ptr # NULL THEN usize(ptr - off) ELSE NULL

\* align_forward moving an aligned address to the next aligned one as well.
align_forward_past_aligned(ptr, alignment) ==
    usize(ptr + (alignment - BitAnd(ptr, alignment - 1)))

align_forward(ptr, alignment) ==
    LET mod == BitAnd(ptr, alignment - 1)
    IN  IF mod # 0 THEN usize(ptr + (alignment - mod)) ELSE ptr

padding_with_header(ptr, alignment, header_size, header_alignment) ==
    LET mod        == u32(BitAnd(ptr, usize(alignment - 1)))
        padding1   == IF mod # 0 THEN u32(alignment - mod) ELSE 0
        ptr1       == usize(ptr + padding1)
        mod_header == u32(BitAnd(ptr1, usize(header_alignment - 1)))
        padding2   == IF mod_header # 0
                      THEN u32(padding1 + (header_alignment - mod_header))
                      ELSE padding1
    IN  u32(padding2 + header_size)

(***************************************************************************)
(* The inputs the model draws.                                             *)
(***************************************************************************)
\* Power-of-two alignments, up to twice the default one.
Alignments == {1, 2, 4, 8, 16, 32}
\* Header sizes and alignments given to padding_with_header.
HeaderSizes == {8, 16, HeaderSize}
HeaderAligns == {4, HeaderAlign}

NoCoreCall == [op |-> "none", val |-> 0]

CoreInit ==
    /\ core_in \in [ptr : 0 .. MaxAddr, alignment : Alignments,
                    header_size : HeaderSizes, header_alignment : HeaderAligns]
    /\ core_out = NoCoreCall

\* The last addresses of the address space.
TopAddrs == (WordMod - MaxAddr) .. (WordMod - 1)

\* The arguments drawn from the first and from the last addresses.
CoreInitWide ==
    /\ core_in \in [ptr : (0 .. MaxAddr) \cup TopAddrs, alignment : Alignments,
                    header_size : HeaderSizes, header_alignment : HeaderAligns]
    /\ core_out = NoCoreCall

CoreIdle ==
    /\ core_in = [ptr |-> 0, alignment |-> 1, header_size |-> HeaderSize,
                  header_alignment |-> HeaderAlign]
    /\ core_out = NoCoreCall

\* A caller applies align_forward to the arguments.
CallAlignForward ==
    /\ core_out.op # "align_forward"
    /\ core_out' = [op  |-> "align_forward",
                    val |-> align_forward(core_in.ptr, core_in.alignment)]
    /\ UNCHANGED <<core_in, stack_vars, arena_vars, life_vars>>

\* Words from both ends and from the middle of the range of a word.
WrapSubWords ==
    (0 .. 3) \cup ((WordMod \div 2 - 2) .. (WordMod \div 2 + 1))
        \cup ((WordMod - 3) .. (WordMod - 1))

\* The operands of usize_wrap_sub drawn from WrapSubWords.
WrapSubInit ==
    /\ core_in \in [lhs : WrapSubWords, rhs : WrapSubWords]
    /\ core_out = NoCoreCall

\* A caller applies usize_wrap_sub to the operands.
CallUsizeWrapSub ==
    /\ core_out.op # "usize_wrap_sub"
    /\ \E val \in usize_wrap_sub_outcomes(core_in.lhs, core_in.rhs) :
           core_out' = [op |-> "usize_wrap_sub", val |-> val]
    /\ UNCHANGED <<core_in, stack_vars, arena_vars, life_vars>>

\* A caller applies padding_with_header to the arguments.
CallPaddingWithHeader ==
    /\ core_out.op # "padding_with_header"
    /\ core_out' = [op  |-> "padding_with_header",
                    val |-> padding_with_header(core_in.ptr, core_in.alignment,
                                core_in.header_size, core_in.header_alignment)]
    /\ UNCHANGED <<core_in, stack_vars, arena_vars, life_vars>>

(***************************************************************************)
(* stack.c                                                                 *)
(***************************************************************************)
\* Sizes requested from the stack: none, one byte, a word.
StackSizes == {0, 1, 8}
\* Alignments requested from the stack.
StackAlignments == {1, 4, 8, DefaultAlignment}

\* Values an uninitialized word of the buffer may hold.
Garbage == {0, HeaderSize, StackCapacity}

\* The addresses of the three slots of the header stored at address h.
HeaderSlots(h) == {h, h + 8, h + 16}

\* The buffer after a header is stored at address h: its three slots hold the
\* header's fields, and a word stored before that overlaps them is lost.
store_header(m, h, hdr) ==
    LET slots     == HeaderSlots(h)
        clobbered == {a \in DOMAIN m : \E s \in slots : a # s /\ a - s < 8 /\ s - a < 8}
    IN  [a \in (DOMAIN m \ clobbered) \cup slots |->
            IF a = h THEN hdr.padding
            ELSE IF a = h + 8 THEN hdr.capacity
            ELSE IF a = h + 16 THEN hdr.previous_offset
            ELSE m[a]]

\* What a word read at address a may yield.
load_word(m, a) == IF a \in DOMAIN m THEN {m[a]} ELSE Garbage

\* The headers a read at address h may yield.
load_header(m, h) ==
    [padding : load_word(m, h), capacity : load_word(m, h + 8),
     previous_offset : load_word(m, h + 16)]

stack_new(capacity, buf) ==
    [buf |-> buf, capacity |-> capacity, offset |-> 0, previous_offset |-> 0]

\* stack_new_header recording the size of the header for the padding.
stack_new_header_without_filler(st, padding, size) ==
    [padding |-> HeaderSize, capacity |-> size,
     previous_offset |-> st.previous_offset]

\* stack_new_header with the link set to the free offset instead of the offset
\* of the previous block.
stack_new_header_links_offset(st, padding, size) ==
    [padding |-> padding, capacity |-> size, previous_offset |-> st.offset]

\* The header stack_alloc_aligned writes before the new block.
stack_new_header(st, padding, size) ==
    [padding |-> padding, capacity |-> size, previous_offset |-> st.previous_offset]

\* stack_alloc_offsets moving the top past the padding only.
stack_alloc_offsets_past_padding(st, padding, required_size) ==
    [st EXCEPT !.previous_offset = usize(st.offset + padding),
               !.offset = usize(st.offset + padding)]

\* The offsets stack_alloc_aligned leaves.
stack_alloc_offsets(st, padding, required_size) ==
    [st EXCEPT !.previous_offset = usize(st.offset + padding),
               !.offset = usize(st.offset + required_size)]

\* stack_alloc_refuses letting a request of no bytes through.
stack_alloc_refuses_no_capacity(st, size) == st.capacity = 0

\* Whether stack_alloc_aligned refuses the request before any computation.
stack_alloc_refuses(st, size) == st.capacity = 0 \/ size = 0

\* stack_out_of_memory refusing a request that fills the buffer exactly.
stack_out_of_memory_off_by_one(required_size, available_capacity) ==
    required_size >= available_capacity

\* stack_alloc_aligned's test that the block and its header do not fit.
stack_out_of_memory(required_size, available_capacity) ==
    required_size > available_capacity

\* stack_alloc_aligned: the pointer returned, the allocator and the buffer left.
stack_alloc_aligned(st, m, size, alignment) ==
    LET free_mem           == alloha_ptr_add(st.buf, st.offset)
        available_capacity == usize_wrap_sub(st.capacity, st.offset)
        padding            == padding_with_header(free_mem, alignment,
                                                  HeaderSize, HeaderAlign)
        required_size      == usize(padding + size)
        new_block          == alloha_ptr_add(free_mem, padding)
        new_header         == alloha_ptr_sub(new_block, HeaderSize)
    IN  IF stack_alloc_refuses(st, size)
               \/ stack_out_of_memory(required_size, available_capacity)
        THEN [ret |-> NULL, stack |-> st, mem |-> m]
        ELSE [ret   |-> new_block,
              stack |-> stack_alloc_offsets(st, padding, required_size),
              mem   |-> store_header(m, new_header,
                                     stack_new_header(st, padding, size))]

stack_alloc(st, m, size) == stack_alloc_aligned(st, m, size, DefaultAlignment)

\* stack_pop_offsets with the previous offset left as it was.
stack_pop_offsets_keeps_previous(st, top_header) ==
    [st EXCEPT !.offset = usize(st.previous_offset - top_header.padding)]

\* stack_pop_offsets rewinding by the header's size instead of the padding.
stack_pop_offsets_by_header_size(st, top_header) ==
    [st EXCEPT !.offset = usize(st.previous_offset - HeaderSize),
               !.previous_offset = top_header.previous_offset]

\* The offsets stack_pop leaves, given the header of the top block.
stack_pop_offsets(st, top_header) ==
    [st EXCEPT !.offset = usize(st.previous_offset - top_header.padding),
               !.previous_offset = top_header.previous_offset]

\* stack_pop_is_empty taking a stack whose top is its first block for empty.
stack_pop_is_empty_at_first_block(st) == st.previous_offset <= HeaderSize

\* Whether stack_pop finds nothing to pop.
stack_pop_is_empty(st) == st.offset = 0

\* stack_pop: the outcomes (result, allocator left) the call may have.
stack_pop(st, m) ==
    IF stack_pop_is_empty(st)
    THEN {[ret |-> FALSE, stack |-> st]}
    ELSE LET top == alloha_ptr_add(st.buf, st.previous_offset)
         IN  {[ret |-> TRUE, stack |-> stack_pop_offsets(st, h)] :
                 h \in load_header(m, alloha_ptr_sub(top, HeaderSize))}

\* stack_clear_at_in_range with the addresses just below the buffer let in.
stack_clear_at_in_range_from_below(st, block) ==
    alloha_ptr_sub(st.buf, HeaderAlign) <= block
        /\ block < alloha_ptr_add(st.buf, st.capacity)

\* Whether stack_clear_at finds the block inside the buffer.
stack_clear_at_in_range(st, block) ==
    st.buf <= block /\ block < alloha_ptr_add(st.buf, st.capacity)

\* stack_clear_at_is_free refusing only the end of the buffer.
stack_clear_at_is_free_at_end(st, block) ==
    block >= alloha_ptr_add(st.buf, st.capacity)

\* Whether stack_clear_at refuses the block as already free.
stack_clear_at_is_free(st, block) ==
    block >= alloha_ptr_add(st.buf, st.previous_offset)

\* stack_clear_at_offsets with the previous offset left as it was.
stack_clear_at_offsets_keeps_previous(st, block, block_header) ==
    [st EXCEPT !.offset = usize_wrap_sub(usize_wrap_sub(block, block_header.padding),
                                         st.buf)]

\* stack_clear_at_offsets rewinding to the block instead of to its padding.
stack_clear_at_offsets_to_block(st, block, block_header) ==
    [st EXCEPT !.offset = usize_wrap_sub(block, st.buf),
               !.previous_offset = block_header.previous_offset]

\* The offsets stack_clear_at leaves, given the header of the block.
stack_clear_at_offsets(st, block, block_header) ==
    [st EXCEPT !.offset = usize_wrap_sub(usize_wrap_sub(block, block_header.padding),
                                         st.buf),
               !.previous_offset = block_header.previous_offset]

\* stack_clear_at: the outcomes (result, allocator left) the call may have.
stack_clear_at(st, m, block) ==
    IF block = NULL
    THEN {[ret |-> FALSE, stack |-> st]}
    ELSE IF ~stack_clear_at_in_range(st, block)
    THEN {[ret |-> FALSE, stack |-> st]}
    ELSE IF stack_clear_at_is_free(st, block)
    THEN {[ret |-> FALSE, stack |-> st]}
    ELSE {[ret |-> TRUE, stack |-> stack_clear_at_offsets(st, block, h)] :
             h \in load_header(m, alloha_ptr_sub(block, HeaderSize))}

stack_clear(st) == [st EXCEPT !.offset = 0, !.previous_offset = 0]

\* The offsets of the blocks the allocator would pop in turn: the block at
\* offset p and those its header links to, as long as the links descend.
RECURSIVE header_chain(_, _, _)
header_chain(st, m, p) ==
    IF p = 0 THEN {}
    ELSE LET link == alloha_ptr_add(alloha_ptr_sub(alloha_ptr_add(st.buf, p),
                                                   HeaderSize), 16)
         IN  IF link \in DOMAIN m /\ m[link] < p
             THEN {p} \cup header_chain(st, m, m[link])
             ELSE {p}

(***************************************************************************)
(* The stack allocator and its caller.  stack_live is the caller's record  *)
(* of the blocks it was handed and has not deallocated since: for each,    *)
(* its address, its size and the offsets of the allocator just before the  *)
(* block was allocated.  stack_call is the call just made.                 *)
(***************************************************************************)
NoStackCall ==
    [op |-> "none", size |-> 0, alignment |-> 0, block |-> NULL,
     ret_ptr |-> NULL, ret_ok |-> FALSE,
     pre_offset |-> 0, pre_previous_offset |-> 0,
     idx |-> 0, n |-> 0, o0 |-> 0, p0 |-> 0]

StackInit ==
    /\ stack = stack_new(StackCapacity, BufBase)
    /\ stack_mem = <<>>
    /\ stack_live = <<>>
    /\ stack_call = NoStackCall
    /\ stack_freed = {}

\* The place of a block among the live blocks (0: not a live block).
LiveIndex(block) ==
    LET hits == {i \in 1 .. Len(stack_live) : stack_live[i].ptr = block}
    IN  IF hits = {} THEN 0 ELSE CHOOSE j \in hits : TRUE

\* What the caller records of a call: its arguments and result, the offsets
\* before it and, for a call that targets live block i, the offsets recorded
\* when that block was allocated.
StackCallOf(op, size, alignment, block, i, ret_ptr, ret_ok) ==
    [op |-> op, size |-> size, alignment |-> alignment, block |-> block,
     ret_ptr |-> ret_ptr, ret_ok |-> ret_ok,
     pre_offset |-> stack.offset,
     pre_previous_offset |-> stack.previous_offset,
     idx |-> i, n |-> Len(stack_live),
     o0 |-> IF i = 0 THEN 0 ELSE stack_live[i].o0,
     p0 |-> IF i = 0 THEN 0 ELSE stack_live[i].p0]

\* The addresses of the live blocks from place i on.
LiveFrom(i) == {stack_live[j].ptr : j \in i .. Len(stack_live)}

\* The caller's record of live blocks after an allocation returned ret.
LiveAfterAlloc(ret, size) ==
    IF ret = NULL THEN stack_live
    ELSE Append(stack_live, [ptr |-> ret, size |-> size,
                             o0 |-> stack.offset, p0 |-> stack.previous_offset])

StackAllocAligned ==
    \E size \in StackSizes, alignment \in StackAlignments :
        \E r \in {stack_alloc_aligned(stack, stack_mem, size, alignment)} :
            /\ stack' = r.stack
            /\ stack_mem' = r.mem
            /\ stack_live' = LiveAfterAlloc(r.ret, size)
            /\ stack_call' = StackCallOf("alloc_aligned", size, alignment, NULL,
                                         0, r.ret, r.ret # NULL)
            /\ stack_freed' = IF r.ret = NULL THEN stack_freed ELSE {}
            /\ UNCHANGED <<core_vars, arena_vars, life_vars>>

StackAlloc ==
    \E size \in StackSizes :
        \E r \in {stack_alloc(stack, stack_mem, size)} :
            /\ stack' = r.stack
            /\ stack_mem' = r.mem
            /\ stack_live' = LiveAfterAlloc(r.ret, size)
            /\ stack_call' = StackCallOf("alloc", size, DefaultAlignment, NULL,
                                         0, r.ret, r.ret # NULL)
            /\ stack_freed' = IF r.ret = NULL THEN stack_freed ELSE {}
            /\ UNCHANGED <<core_vars, arena_vars, life_vars>>

StackPop ==
    \E r \in stack_pop(stack, stack_mem) :
        /\ stack' = r.stack
        /\ stack_live' = IF r.ret /\ stack_live # <<>>
                         THEN SubSeq(stack_live, 1, Len(stack_live) - 1)
                         ELSE stack_live
        /\ stack_call' = StackCallOf("pop", 0, 0, NULL, Len(stack_live), NULL, r.ret)
        /\ stack_freed' = IF r.ret /\ stack_live # <<>>
                          THEN stack_freed \cup LiveFrom(Len(stack_live))
                          ELSE stack_freed
        /\ UNCHANGED <<stack_mem, core_vars, arena_vars, life_vars>>

\* The blocks a caller passes to stack_clear_at: the null pointer, a live
\* block, a block deallocated since the last allocation, and addresses before
\* and past the buffer.
ClearAtBlocks ==
    {NULL, BufBase - 8, BufBase + StackCapacity, BufBase + StackCapacity + 8}
        \cup LiveFrom(1) \cup stack_freed

StackClearAt ==
    \E block \in ClearAtBlocks :
        \E r \in stack_clear_at(stack, stack_mem, block) :
            \E c \in {StackCallOf("clear_at", 0, 0, block, LiveIndex(block),
                                    NULL, r.ret)} :
                /\ stack' = r.stack
                /\ stack_live' = IF r.ret /\ c.idx # 0
                                 THEN SubSeq(stack_live, 1, c.idx - 1)
                                 ELSE stack_live
                /\ stack_call' = c
                /\ stack_freed' = IF r.ret /\ c.idx # 0
                                  THEN stack_freed \cup LiveFrom(c.idx)
                                  ELSE stack_freed
                /\ UNCHANGED <<stack_mem, core_vars, arena_vars, life_vars>>

StackClear ==
    /\ stack' = stack_clear(stack)
    /\ stack_live' = <<>>
    /\ stack_call' = StackCallOf("clear", 0, 0, NULL, 0, NULL, TRUE)
    /\ stack_freed' = stack_freed \cup LiveFrom(1)
    /\ UNCHANGED <<stack_mem, core_vars, arena_vars, life_vars>>


(***************************************************************************)
(* arena.c                                                                 *)
(***************************************************************************)
\* Sizes requested from the arena: none, half a word, a word and a half.
ArenaSizes == {0, 4, 12}
\* Alignments requested from the arena.
ArenaAlignments == {1, 8}
\* Sizes the caller states for the block it resizes.
ResizeOldSizes == {4, 12}
\* Alignments given to arena_resize: a power of two and one that is not.
ResizeAlignments == {8, 12}

arena_init(buf, buf_size) ==
    [buf |-> buf, capacity |-> buf_size, offset |-> 0, previous_offset |-> 0,
     memory_owner |-> FALSE]

arena_create(capacity, buf) ==
    [buf |-> buf, capacity |-> capacity, offset |-> 0, previous_offset |-> 0,
     memory_owner |-> TRUE]

\* arena_out_of_memory looking at the free offset and not at the request.
arena_out_of_memory_by_offset(ar, required_mem) == ar.offset > ar.capacity

\* arena_alloc_aligned's test that the block does not fit.
arena_out_of_memory_off_by_one(ar, required_mem) == required_mem >= ar.capacity

arena_out_of_memory(ar, required_mem) == required_mem > ar.capacity

\* arena_alloc_aligned: the pointer returned and the allocator left; fatal when
\* an assertion of the function (or of align_forward) stops the program.
arena_alloc_aligned(ar, size, alignment) ==
    LET free_mem_ptr   == usize(ar.buf + ar.offset)
        aligned_offset == usize(align_forward(free_mem_ptr, alignment) - ar.buf)
        required_mem   == usize(aligned_offset + size)
    IN  IF size = 0 \/ ~alloha_is_power_of_two(alignment)
        THEN [ret |-> NULL, arena |-> ar, fatal |-> TRUE]
        ELSE IF arena_out_of_memory(ar, required_mem)
        THEN [ret |-> NULL, arena |-> ar, fatal |-> FALSE]
        ELSE [ret   |-> usize(ar.buf + aligned_offset),
              arena |-> [ar EXCEPT !.previous_offset = aligned_offset,
                                   !.offset = required_mem],
              fatal |-> FALSE]

arena_alloc(ar, size) == arena_alloc_aligned(ar, size, DefaultAlignment)

\* arena_resize_in_place measuring the new size from the start of the buffer.
arena_resize_in_place_from_start(ar, new_size) ==
    [ar EXCEPT !.offset = usize(new_size)]

\* arena_resize_in_place moving the offset of the previous block as well.
arena_resize_in_place_moves_previous(ar, new_size) ==
    [ar EXCEPT !.offset = usize(ar.previous_offset + new_size),
               !.previous_offset = ar.offset]

\* The allocator arena_resize leaves when old_mem is the previous block.
arena_resize_in_place(ar, new_size) ==
    [ar EXCEPT !.offset = usize(ar.previous_offset + new_size)]

\* Values a byte read past the end of the buffer may hold.
ArenaGarbage == {0, 255}

\* memmove leaving the last of the n bytes uncopied.
memmove_one_short(m, dst, src, n, g) ==
    [k \in DOMAIN m |->
        IF dst <= k /\ k < dst + n - 1
        THEN IF src + (k - dst) \in DOMAIN m THEN m[src + (k - dst)] ELSE g
        ELSE m[k]]

\* memmove(buf + dst, buf + src, n) on the buffer m: the bytes are copied as if
\* through a temporary; bytes read past the end of the buffer all hold g.
memmove(m, dst, src, n, g) ==
    [k \in DOMAIN m |->
        IF dst <= k /\ k < dst + n
        THEN IF src + (k - dst) \in DOMAIN m THEN m[src + (k - dst)] ELSE g
        ELSE m[k]]

\* arena_resize_is_redundant taking only a resize to no bytes for redundant.
arena_resize_is_redundant_when_empty(old_mem_size, new_size) ==
    new_size = old_mem_size /\ new_size = 0

\* Whether arena_resize is asked for the size the block already has.
arena_resize_is_redundant(old_mem_size, new_size) == new_size = old_mem_size

\* arena_resize_in_buffer with the address one past the buffer let in.
arena_resize_in_buffer_to_end(ar, old_mem) ==
    ar.buf <= old_mem /\ old_mem <= ar.buf + ar.capacity

\* Whether arena_resize finds the block inside the buffer.
arena_resize_in_buffer(ar, old_mem) ==
    ar.buf <= old_mem /\ old_mem < ar.buf + ar.capacity

\* arena_resize: the outcomes the call may have.  When the block is moved and
\* the new allocation fails, memmove is given a null destination: with bytes
\* to copy the program may stop there or go on.
arena_resize(ar, m, old_mem, old_mem_size, new_size, alignment) ==
    IF old_mem = NULL
    THEN {[ret |-> NULL, arena |-> ar, mem |-> m, fatal |-> TRUE]}
    ELSE IF arena_resize_is_redundant(old_mem_size, new_size)
    THEN {[ret |-> old_mem, arena |-> ar, mem |-> m, fatal |-> FALSE]}
    ELSE IF ~alloha_is_power_of_two(alignment)
    THEN {[ret |-> NULL, arena |-> ar, mem |-> m, fatal |-> FALSE]}
    ELSE IF ~arena_resize_in_buffer(ar, old_mem)
    THEN {[ret |-> NULL, arena |-> ar, mem |-> m, fatal |-> FALSE]}
    ELSE IF old_mem = ar.buf + ar.previous_offset
    THEN {[ret |-> old_mem, arena |-> arena_resize_in_place(ar, new_size),
           mem |-> m, fatal |-> FALSE]}
    ELSE LET new_mem       == arena_alloc_aligned(ar, new_size, alignment)
             min_copy_size == IF old_mem_size < new_size THEN old_mem_size
                              ELSE new_size
             src           == old_mem - ar.buf
             dst           == new_mem.ret - ar.buf
             in_bounds     == src + min_copy_size <= ar.capacity
         IN  IF new_mem.fatal \/ min_copy_size = 0
             THEN {[ret |-> new_mem.ret, arena |-> new_mem.arena, mem |-> m,
                    fatal |-> new_mem.fatal]}
             ELSE IF new_mem.ret = NULL
             THEN {[ret |-> NULL, arena |-> new_mem.arena, mem |-> m,
                    fatal |-> f] : f \in BOOLEAN}
             ELSE {[ret |-> new_mem.ret, arena |-> new_mem.arena,
                    mem |-> memmove(m, dst, src, min_copy_size, g),
                    fatal |-> FALSE] :
                      g \in IF in_bounds THEN {0} ELSE ArenaGarbage}

\* arena_free_all rewinding the offset of the previous block only.
arena_free_all_keeps_offset(ar) == [ar EXCEPT !.previous_offset = 0]

arena_free_all(ar) == [ar EXCEPT !.offset = 0, !.previous_offset = 0]

\* The zeroed allocator record, (arena_alloc_t){0} and (stack_alloc_t){0}.
ZeroAlloc ==
    [buf |-> NULL, capacity |-> 0, offset |-> 0, previous_offset |-> 0,
     memory_owner |-> FALSE]

\* arena_destroy freeing the buffer and leaving the record as it was.
arena_destroy_keeps_fields(ar) ==
    IF ar.memory_owner /\ ar.buf # NULL
    THEN [arena |-> ar, freed |-> TRUE]
    ELSE [arena |-> ar, freed |-> FALSE]

\* arena_destroy: the allocator left and whether free was called on its buffer.
arena_destroy(ar) ==
    IF ar.memory_owner /\ ar.buf # NULL
    THEN [arena |-> ZeroAlloc, freed |-> TRUE]
    ELSE [arena |-> ar, freed |-> FALSE]

\* stack_init and stack_create of the stack_alloc_t interface.
stack_init(buf, buf_size) ==
    [buf |-> buf, capacity |-> buf_size, offset |-> 0, previous_offset |-> 0,
     memory_owner |-> FALSE]

stack_create(capacity, buf) ==
    [buf |-> buf, capacity |-> capacity, offset |-> 0, previous_offset |-> 0,
     memory_owner |-> TRUE]

\* stack_destroy: the allocator left and whether free was called on its buffer.
stack_destroy(st) ==
    IF st.memory_owner /\ st.buf # NULL
    THEN [stack |-> ZeroAlloc, freed |-> TRUE]
    ELSE [stack |-> st, freed |-> FALSE]

\* temporary_arena_init saving the offset of the previous block twice.
temporary_arena_init_previous_twice(ar) ==
    [saved_offset |-> ar.previous_offset,
     saved_previous_offset |-> ar.previous_offset]

temporary_arena_init(ar) ==
    [saved_offset |-> ar.offset, saved_previous_offset |-> ar.previous_offset]

\* temporary_arena_end restoring the free offset only.
temporary_arena_end_offset_only(ar, tmp_arena) ==
    [ar EXCEPT !.offset = tmp_arena.saved_offset]

temporary_arena_end(ar, tmp_arena) ==
    [ar EXCEPT !.offset = tmp_arena.saved_offset,
               !.previous_offset = tmp_arena.saved_previous_offset]

(***************************************************************************)
(* The arena allocator and its caller.  arena_tmp holds the checkpoints    *)
(* the caller has taken and not ended, oldest first, each with the offsets *)
(* the caller saw when it took it; arena_call is the call just made, and   *)
(* for the ending of checkpoint idx of n the offsets seen at its taking.   *)
(* After a fatal call the program has stopped.                             *)
(***************************************************************************)
NoArenaCall ==
    [op |-> "none", size |-> 0, old_size |-> 0, alignment |-> 0,
     old_mem |-> NULL, ret |-> NULL, fatal |-> FALSE,
     pre_offset |-> 0, pre_previous_offset |-> 0,
     idx |-> 0, n |-> 0, o0 |-> 0, p0 |-> 0]

\* The record of a caller that keeps none, and of one that has no block yet.
NoBlocks == [on |-> FALSE, blocks |-> <<>>]
NoBlocksYet == [on |-> TRUE, blocks |-> <<>>]

ArenaIdle ==
    /\ arena = arena_init(BufBase, ArenaCapacity)
    /\ arena_tmp = <<>>
    /\ arena_call = NoArenaCall
    /\ arena_mem = [k \in 0 .. ArenaCapacity - 1 |-> k + 1]
    /\ arena_live = NoBlocks

ArenaInit == ArenaIdle

ArenaCallOf(op, size, old_size, alignment, old_mem, ret, fatal) ==
    [op |-> op, size |-> size, old_size |-> old_size, alignment |-> alignment,
     old_mem |-> old_mem, ret |-> ret, fatal |-> fatal,
     pre_offset |-> arena.offset,
     pre_previous_offset |-> arena.previous_offset,
     idx |-> 0, n |-> Len(arena_tmp), o0 |-> 0, p0 |-> 0]

\* The place in the record of the last block at offset off (0: none).
BlockAt(off) ==
    LET hits == {i \in 1 .. Len(arena_live.blocks) : arena_live.blocks[i].off = off}
    IN  IF hits = {} THEN 0 ELSE CHOOSE i \in hits : \A j \in hits : j <= i

\* The record with its i-th block left out.
WithoutBlock(i) ==
    SubSeq(arena_live.blocks, 1, i - 1)
        \o SubSeq(arena_live.blocks, i + 1, Len(arena_live.blocks))

\* The record after an allocation returned r: the block handed out is added.
BlocksAfterAlloc(r, size) ==
    IF ~arena_live.on \/ r.ret = NULL THEN arena_live
    ELSE [arena_live EXCEPT
             !.blocks = Append(@, [off |-> r.ret - arena.buf, size |-> size])]

\* The record after arena_resize returned r.  A redundant or failed call
\* leaves it; a resize in place gives the block at previous_offset its new
\* size (a block of no bytes is forgotten); a resize that moved the block adds
\* the fresh block.
BlocksAfterResize(old_mem, old_size, new_size, r) ==
    IF \/ ~arena_live.on
       \/ r.ret = NULL
       \/ arena_resize_is_redundant(old_size, new_size)
    THEN arena_live
    ELSE IF r.ret = old_mem
    THEN LET i    == BlockAt(arena.previous_offset)
             rest == IF i = 0 THEN arena_live.blocks ELSE WithoutBlock(i)
         IN  [arena_live EXCEPT
                 !.blocks = IF new_size = 0 THEN rest
                            ELSE Append(rest, [off  |-> arena.previous_offset,
                                               size |-> new_size])]
    ELSE [arena_live EXCEPT
             !.blocks = Append(@, [off |-> r.ret - arena.buf, size |-> new_size])]

\* The record after a reset or the ending of a temporary arena.
BlocksCleared == [arena_live EXCEPT !.blocks = <<>>]

ArenaAllocAligned ==
    /\ ~arena_call.fatal
    /\ \E size \in ArenaSizes, alignment \in ArenaAlignments :
           \E r \in {arena_alloc_aligned(arena, size, alignment)} :
               /\ arena' = r.arena
               /\ arena_call' = ArenaCallOf("alloc_aligned", size, 0, alignment,
                                            NULL, r.ret, r.fatal)
               /\ arena_live' = BlocksAfterAlloc(r, size)
               /\ UNCHANGED <<arena_tmp, arena_mem, core_vars, stack_vars, life_vars>>

ArenaAlloc ==
    /\ ~arena_call.fatal
    /\ \E size \in ArenaSizes :
           \E r \in {arena_alloc(arena, size)} :
               /\ arena' = r.arena
               /\ arena_call' = ArenaCallOf("alloc", size, 0, DefaultAlignment,
                                            NULL, r.ret, r.fatal)
               /\ arena_live' = BlocksAfterAlloc(r, size)
               /\ UNCHANGED <<arena_tmp, arena_mem, core_vars, stack_vars, life_vars>>

\* The blocks a caller passes to arena_resize: the null pointer, the previous
\* block, words of the buffer, and addresses before and past the buffer.
ResizeBlocks ==
    {NULL, BufBase - 8, arena.buf + arena.capacity, BufBase, BufBase + 4,
     arena.buf + arena.previous_offset}

ArenaResize ==
    /\ ~arena_call.fatal
    /\ \E old_mem \in ResizeBlocks, old_size \in ResizeOldSizes,
          new_size \in ArenaSizes, alignment \in ResizeAlignments :
           \E r \in arena_resize(arena, arena_mem, old_mem, old_size, new_size,
                                  alignment) :
               /\ arena' = r.arena
               /\ arena_mem' = r.mem
               /\ arena_live' = BlocksAfterResize(old_mem, old_size, new_size, r)
               /\ arena_call' = ArenaCallOf("resize", new_size, old_size, alignment,
                                            old_mem, r.ret, r.fatal)
               /\ UNCHANGED <<arena_tmp, core_vars, stack_vars, life_vars>>

ArenaFreeAll ==
    /\ ~arena_call.fatal
    /\ arena' = arena_free_all(arena)
    /\ arena_call' = ArenaCallOf("free_all", 0, 0, 0, NULL, NULL, FALSE)
    /\ arena_live' = BlocksCleared
    /\ UNCHANGED <<arena_tmp, arena_mem, core_vars, stack_vars, life_vars>>

TemporaryArenaInit ==
    /\ ~arena_call.fatal
    /\ Len(arena_tmp) < MaxScratch
    /\ arena_tmp' = Append(arena_tmp, [tmp |-> temporary_arena_init(arena),
                                       o0  |-> arena.offset,
                                       p0  |-> arena.previous_offset])
    /\ arena_call' = ArenaCallOf("tmp_init", 0, 0, 0, NULL, NULL, FALSE)
    /\ UNCHANGED <<arena, arena_mem, arena_live, core_vars, stack_vars, life_vars>>

\* The caller ends one of the checkpoints it holds, which is zeroed.
TemporaryArenaEnd ==
    /\ ~arena_call.fatal
    /\ \E i \in 1 .. Len(arena_tmp) :
           /\ arena' = temporary_arena_end(arena, arena_tmp[i].tmp)
           /\ arena_tmp' = SubSeq(arena_tmp, 1, i - 1)
                               \o SubSeq(arena_tmp, i + 1, Len(arena_tmp))
           /\ arena_call' = [ArenaCallOf("tmp_end", 0, 0, 0, NULL, NULL, FALSE)
                                EXCEPT !.idx = i, !.o0 = arena_tmp[i].o0,
                                       !.p0 = arena_tmp[i].p0]
           /\ arena_live' = BlocksCleared
           /\ UNCHANGED <<arena_mem, core_vars, stack_vars, life_vars>>

(***************************************************************************)
(* A caller that makes requests of a fresh arena, resets it and makes the  *)
(* same requests again.  arena_replay holds what it saw the first time.    *)
(***************************************************************************)
NoReplay == [phase |-> "idle", trace |-> <<>>, pos |-> 0]

\* What the caller notes of a request: its arguments, the pointer returned
\* and the offsets the arena was left with.
Noted(size, alignment, r) ==
    [size |-> size, alignment |-> alignment, ret |-> r.ret,
     offset |-> r.arena.offset, previous_offset |-> r.arena.previous_offset]

ReplayRequest ==
    /\ arena_replay.phase = "first"
    /\ ~arena_call.fatal
    /\ Len(arena_replay.trace) < MaxRequests
    /\ \E size \in ArenaSizes, alignment \in ArenaAlignments \cup {DefaultAlignment} :
           \E r \in {arena_alloc_aligned(arena, size, alignment)} :
               /\ arena' = r.arena
               /\ arena_call' = ArenaCallOf("alloc_aligned", size, 0, alignment,
                                            NULL, r.ret, r.fatal)
               /\ arena_replay' =
                      [arena_replay EXCEPT
                          !.trace = Append(@, Noted(size, alignment, r))]
               /\ arena_live' = BlocksAfterAlloc(r, size)
               /\ UNCHANGED <<arena_tmp, arena_mem, owned_stack, heap,
                              core_vars, stack_vars>>

ReplayReset ==
    /\ arena_replay.phase = "first"
    /\ ~arena_call.fatal
    /\ arena' = arena_free_all(arena)
    /\ arena_call' = ArenaCallOf("free_all", 0, 0, 0, NULL, NULL, FALSE)
    /\ arena_replay' = [arena_replay EXCEPT !.phase = "second"]
    /\ arena_live' = BlocksCleared
    /\ UNCHANGED <<arena_tmp, arena_mem, owned_stack, heap, core_vars, stack_vars>>

ReplayAgain ==
    /\ arena_replay.phase = "second"
    /\ ~arena_call.fatal
    /\ arena_replay.pos < Len(arena_replay.trace)
    /\ \E t \in {arena_replay.trace[arena_replay.pos + 1]} :
           \E r \in {arena_alloc_aligned(arena, t.size, t.alignment)} :
               /\ arena' = r.arena
               /\ arena_call' = ArenaCallOf("alloc_aligned", t.size, 0, t.alignment,
                                            NULL, r.ret, r.fatal)
               /\ arena_replay' = [arena_replay EXCEPT !.pos = @ + 1]
               /\ arena_live' = BlocksAfterAlloc(r, t.size)
               /\ UNCHANGED <<arena_tmp, arena_mem, owned_stack, heap,
                              core_vars, stack_vars>>

(***************************************************************************)
(* The life of an allocator that owns or borrows its buffer.  heap counts  *)
(* the calls of free on each buffer and the calls of destroy.              *)
(***************************************************************************)
NoHeap ==
    [arena_owned |-> FALSE, arena_freed |-> 0, arena_destroys |-> 0,
     stack_owned |-> FALSE, stack_freed |-> 0, stack_destroys |-> 0]

LifeIdle ==
    /\ arena_replay = NoReplay
    /\ owned_stack = stack_init(BufBase, StackCapacity)
    /\ heap = NoHeap

ArenaDestroy ==
    /\ ~arena_call.fatal
    /\ heap.arena_destroys < MaxDestroys
    /\ \E r \in {arena_destroy(arena)} :
           /\ arena' = r.arena
           /\ arena_call' = ArenaCallOf("destroy", 0, 0, 0, NULL, NULL, FALSE)
           /\ heap' = [heap EXCEPT !.arena_destroys = @ + 1,
                                   !.arena_freed = IF r.freed THEN @ + 1 ELSE @]
           /\ arena_live' = BlocksCleared
           /\ UNCHANGED <<arena_tmp, arena_mem, arena_replay, owned_stack,
                          core_vars, stack_vars>>

StackDestroy ==
    /\ heap.stack_destroys < MaxDestroys
    /\ \E r \in {stack_destroy(owned_stack)} :
           /\ owned_stack' = r.stack
           /\ heap' = [heap EXCEPT !.stack_destroys = @ + 1,
                                   !.stack_freed = IF r.freed THEN @ + 1 ELSE @]
           /\ UNCHANGED <<arena_replay, arena_vars, core_vars, stack_vars>>

(***************************************************************************)
(* Specifications.                                                         *)
(***************************************************************************)
\* The stack allocator under every call of its interface.
Init == CoreIdle /\ StackInit /\ ArenaInit /\ LifeIdle

Next ==
    \/ StackAllocAligned
    \/ StackAlloc
    \/ StackPop
    \/ StackClearAt
    \/ StackClear

Spec == Init /\ [][Next]_vars

\* The pure functions of core.c applied to arguments drawn from bounded sets.
InitCore == CoreInit /\ StackInit /\ ArenaInit /\ LifeIdle

NextCore ==
    \/ CallAlignForward
    \/ CallPaddingWithHeader

SpecCore == InitCore /\ [][NextCore]_vars

\* The same functions applied to addresses at both ends of the address space.
InitCoreWide == CoreInitWide /\ StackInit /\ ArenaInit /\ LifeIdle

SpecCoreWide == InitCoreWide /\ [][NextCore]_vars

\* usize_wrap_sub applied to operands over the whole range of a word.
InitWrapSub == WrapSubInit /\ StackInit /\ ArenaInit /\ LifeIdle

NextWrapSub == CallUsizeWrapSub

SpecWrapSub == InitWrapSub /\ [][NextWrapSub]_vars

\* Both allocators under allocation requests only.
NextRequests ==
    \/ StackAllocAligned
    \/ StackAlloc
    \/ ArenaAllocAligned
    \/ ArenaAlloc

SpecRequests == Init /\ [][NextRequests]_vars

\* Sizes of requests from both ends of the range of a word.
AnySizes == {8, WordMod - HeaderSize, WordMod - 1}

\* stack_alloc_aligned asked for a block of any size a word can hold, by a
\* caller that holds at most MaxRequests blocks.
StackAllocAlignedAnySize ==
    \E size \in AnySizes, alignment \in StackAlignments :
        /\ Len(stack_live) < MaxRequests
        /\ \E r \in {stack_alloc_aligned(stack, stack_mem, size, alignment)} :
               /\ stack' = r.stack
               /\ stack_mem' = r.mem
               /\ stack_live' = LiveAfterAlloc(r.ret, size)
               /\ stack_call' = StackCallOf("alloc_aligned", size, alignment, NULL,
                                            0, r.ret, r.ret # NULL)
               /\ stack_freed' = IF r.ret = NULL THEN stack_freed ELSE {}
               /\ UNCHANGED <<core_vars, arena_vars, life_vars>>

\* arena_alloc_aligned asked for a block of any size a word can hold.
ArenaAllocAlignedAnySize ==
    /\ ~arena_call.fatal
    /\ \E size \in AnySizes, alignment \in ArenaAlignments :
           \E r \in {arena_alloc_aligned(arena, size, alignment)} :
               /\ arena' = r.arena
               /\ arena_call' = ArenaCallOf("alloc_aligned", size, 0, alignment,
                                            NULL, r.ret, r.fatal)
               /\ arena_live' = BlocksAfterAlloc(r, size)
               /\ UNCHANGED <<arena_tmp, arena_mem, core_vars, stack_vars, life_vars>>

\* Both allocators under requests of any size.
NextAnySize ==
    \/ StackAllocAlignedAnySize
    \/ ArenaAllocAlignedAnySize

SpecAnySize == Init /\ [][NextAnySize]_vars

\* The arena allocator under every call of its interface.
InitArena == CoreIdle /\ StackInit /\ ArenaInit /\ LifeIdle

NextArena ==
    \/ ArenaAllocAligned
    \/ ArenaAlloc
    \/ ArenaResize
    \/ ArenaFreeAll

SpecArena == InitArena /\ [][NextArena]_vars

\* The arena allocator under checkpoints: allocations between the taking and
\* the ending of temporary arenas.
NextArenaTmp ==
    \/ ArenaAllocAligned
    \/ ArenaAlloc
    \/ ArenaResize
    \/ TemporaryArenaInit
    \/ TemporaryArenaEnd

\* The buffer is zero-filled here: moving a block leaves its bytes as they were.
InitArenaTmp ==
    /\ CoreIdle /\ StackInit /\ LifeIdle
    /\ arena = arena_init(BufBase, ArenaCapacity)
    /\ arena_tmp = <<>>
    /\ arena_call = NoArenaCall
    /\ arena_mem = [k \in 0 .. ArenaCapacity - 1 |-> 0]
    /\ arena_live = NoBlocks

SpecArenaTmp == InitArenaTmp /\ [][NextArenaTmp]_vars

\* The arena allocator under every call that moves its offsets: allocations,
\* resizes, resets, and the taking and ending of temporary arenas.
NextArenaAll ==
    \/ ArenaAllocAligned
    \/ ArenaAlloc
    \/ ArenaResize
    \/ ArenaFreeAll
    \/ TemporaryArenaInit
    \/ TemporaryArenaEnd

SpecArenaAll == InitArenaTmp /\ [][NextArenaAll]_vars

\* The caller ends the checkpoint it took last.
TemporaryArenaEndInnermost ==
    /\ TemporaryArenaEnd
    /\ arena_call'.idx = Len(arena_tmp)

\* The arena allocator under checkpoints that are ended in the reverse of the
\* order in which they were taken, and never reset.
NextScopes ==
    \/ ArenaAllocAligned
    \/ ArenaAlloc
    \/ ArenaResize
    \/ TemporaryArenaInit
    \/ TemporaryArenaEndInnermost

SpecScopes == InitArenaTmp /\ [][NextScopes]_vars

\* The arena allocator and a caller that keeps a record of the blocks it holds.
InitBlocks ==
    /\ CoreIdle /\ StackInit /\ LifeIdle
    /\ arena = arena_init(BufBase, ArenaCapacity)
    /\ arena_tmp = <<>>
    /\ arena_call = NoArenaCall
    /\ arena_mem = [k \in 0 .. ArenaCapacity - 1 |-> 0]
    /\ arena_live = NoBlocksYet

SpecBlocks == InitBlocks /\ [][NextArena]_vars

\* A fresh arena given requests, reset, and given the same requests again.
InitReplay ==
    /\ CoreIdle /\ StackInit /\ ArenaInit
    /\ arena_replay = [NoReplay EXCEPT !.phase = "first"]
    /\ owned_stack = stack_init(BufBase, StackCapacity)
    /\ heap = NoHeap

NextReplay ==
    \/ ReplayRequest
    \/ ReplayReset
    \/ ReplayAgain

SpecReplay == InitReplay /\ [][NextReplay]_vars

\* Allocators that own or borrow their buffers, used and destroyed.
InitLife ==
    /\ CoreIdle /\ StackInit
    /\ arena \in {arena_init(BufBase, ArenaCapacity),
                  arena_create(ArenaCapacity, BufBase)}
    /\ arena_tmp = <<>>
    /\ arena_call = NoArenaCall
    /\ arena_mem = [k \in 0 .. ArenaCapacity - 1 |-> k + 1]
    /\ arena_live = NoBlocks
    /\ arena_replay = NoReplay
    /\ owned_stack \in {stack_init(BufBase, StackCapacity),
                        stack_create(StackCapacity, BufBase)}
    /\ heap = [NoHeap EXCEPT !.arena_owned = arena.memory_owner,
                             !.stack_owned = owned_stack.memory_owner]

NextLife ==
    \/ ArenaAllocAligned
    \/ ArenaFreeAll
    \/ ArenaDestroy
    \/ StackDestroy

SpecLife == InitLife /\ [][NextLife]_vars

\* The arena allocator over a buffer with room for a block, a second one and a
\* copy of the first: blocks are handed out, resized and moved.
MoveCapacity == 2 * ArenaCapacity

InitMove ==
    /\ CoreIdle /\ StackInit /\ LifeIdle
    /\ arena = arena_init(BufBase, MoveCapacity)
    /\ arena_tmp = <<>>
    /\ arena_call = NoArenaCall
    /\ arena_mem = [k \in 0 .. MoveCapacity - 1 |-> k + 1]
    /\ arena_live = NoBlocks

NextMove ==
    \/ ArenaAllocAligned
    \/ ArenaResize

SpecMove == InitMove /\ [][NextMove]_vars

(***************************************************************************)
(* Claims about the stack allocator, checked under Spec.                   *)
(***************************************************************************)
\* The last call was a stack_alloc_aligned that returned a block.
AllocAlignedSucceeded ==
    stack_call.op = "alloc_aligned" /\ stack_call.ret_ptr # NULL

\* C2: every pointer returned by a successful stack allocate_aligned(size,
\* alignment) is a multiple of the requested alignment, and the address of
\* its header (pointer - header_size) is a multiple of the header alignment.
C2_ReturnedPointerAligned ==
    AllocAlignedSucceeded =>
        /\ stack_call.ret_ptr % stack_call.alignment = 0
        /\ (stack_call.ret_ptr - HeaderSize) % HeaderAlign = 0

\* C4: in every reachable state of the stack, 0 <= previous_offset <= offset
\* <= capacity, previous_offset is the offset of the current top block's
\* usable memory, and both offsets are 0 when no block is live.
C4_StackOffsets ==
    /\ 0 <= stack.previous_offset
    /\ stack.previous_offset <= stack.offset
    /\ stack.offset <= stack.capacity
    /\ stack_live # <<>> =>
           stack.buf + stack.previous_offset = stack_live[Len(stack_live)].ptr
    /\ stack_live = <<>> => stack.offset = 0 /\ stack.previous_offset = 0

\* The third of three live blocks was popped: the second is the top again.
C4_Witness ==
    /\ stack_call.op = "pop"
    /\ stack_call.ret_ok
    /\ Len(stack_live) = 2
    /\ stack.previous_offset > stack_live[1].ptr - stack.buf

\* C7: a successful stack allocate_aligned(size, alignment) from offsets (o, p)
\* returns buf + o + padding, writes at (returned pointer - header_size) the
\* header {padding, capacity = size, previous_offset = p}, and leaves
\* previous_offset = o + padding and offset = o + padding + size; the pointer
\* returned is buf + previous_offset of the new state.
C7_AllocAlignedEffect ==
    AllocAlignedSucceeded =>
        LET o       == stack_call.pre_offset
            p       == stack_call.pre_previous_offset
            padding == padding_with_header(stack.buf + o, stack_call.alignment,
                                           HeaderSize, HeaderAlign)
            h       == stack_call.ret_ptr - HeaderSize
        IN  /\ stack_call.ret_ptr = stack.buf + o + padding
            /\ HeaderSlots(h) \subseteq DOMAIN stack_mem
            /\ stack_mem[h] = padding
            /\ stack_mem[h + 8] = stack_call.size
            /\ stack_mem[h + 16] = p
            /\ stack.previous_offset = o + padding
            /\ stack.offset = o + padding + stack_call.size
            /\ stack_call.ret_ptr = stack.buf + stack.previous_offset

\* A block was allocated above another one, after alignment filler.
C7_Witness ==
    /\ AllocAlignedSucceeded
    /\ stack_call.pre_previous_offset > 0
    /\ stack.previous_offset - stack_call.pre_offset > HeaderSize

\* C8: stack_pop undoes exactly the most recent live allocation: a pop that
\* follows a successful allocate_aligned returns success and restores offset
\* and previous_offset to their values before the allocation, and every pop of
\* a stack with live blocks returns success and leaves the offsets the
\* allocator had just before its top block was allocated (so allocating A, B,
\* C and popping twice leaves the offsets of having allocated only A).
C8_PopUndoesAlloc ==
    /\ AllocAlignedSucceeded =>
           \A r \in stack_pop(stack, stack_mem) :
               /\ r.ret
               /\ r.stack.offset = stack_call.pre_offset
               /\ r.stack.previous_offset = stack_call.pre_previous_offset
    /\ (stack_call.op = "pop" /\ stack_call.n > 0) =>
           /\ stack_call.ret_ok
           /\ stack.offset = stack_call.o0
           /\ stack.previous_offset = stack_call.p0

\* The second of two live blocks, which was allocated after alignment
\* filler, was popped, leaving the first.
C8_Witness ==
    /\ stack_call.op = "pop"
    /\ stack_call.ret_ok
    /\ stack_call.n = 2
    /\ Len(stack_live) = 1
    /\ stack.offset > 0
    /\ stack_call.pre_previous_offset - stack.offset > HeaderSize

\* C9: for a live block B with at least one live block allocated after it,
\* stack free_at(B) returns success and sets offset and previous_offset to the
\* values they had just before B was allocated, so that B and every block
\* allocated after it are deallocated.
C9_ClearAtBelowTop ==
    (stack_call.op = "clear_at" /\ 0 < stack_call.idx /\ stack_call.idx < stack_call.n) =>
        /\ stack_call.ret_ok
        /\ stack.offset = stack_call.o0
        /\ stack.previous_offset = stack_call.p0
        /\ \A i \in 1 .. Len(stack_live) :
               stack_live[i].ptr + stack_live[i].size <= stack.buf + stack.offset

\* With A, B and C live, free_at(B) left only A.
C9_Witness ==
    /\ stack_call.op = "clear_at"
    /\ stack_call.ret_ok
    /\ stack_call.idx = 2
    /\ stack_call.n = 3
    /\ Len(stack_live) = 1
    /\ stack.offset > 0

\* C10: stack free_at called with the pointer of the current top block returns
\* success and deallocates that block, leaving the offsets pop would leave
\* (those the allocator had just before the block was allocated).
C10_ClearAtTop ==
    (stack_call.op = "clear_at" /\ 0 < stack_call.idx /\ stack_call.idx = stack_call.n) =>
        /\ stack_call.ret_ok
        /\ stack.offset = stack_call.o0
        /\ stack.previous_offset = stack_call.p0


(***************************************************************************)
(* Claims about core.c, checked under SpecCore.                            *)
(***************************************************************************)
\* C1: for every address, power-of-two alignment and header_alignment, and
\* header_size, padding_with_header returns a padding with padding >=
\* header_size, (addr + padding) mod alignment = 0 and
\* (addr + padding - header_size) mod header_alignment = 0.
C1_PaddingWithHeader ==
    core_out.op = "padding_with_header" =>
        /\ core_out.val >= core_in.header_size
        /\ (core_in.ptr + core_out.val) % core_in.alignment = 0
        /\ (core_in.ptr + core_out.val - core_in.header_size)
               % core_in.header_alignment = 0

(***************************************************************************)
(* Claims about the arena allocator, checked under SpecArena.              *)
(***************************************************************************)
\* C3: in every reachable state of an arena, 0 <= previous_offset <= offset
\* <= capacity.
C3_ArenaOffsets ==
    /\ 0 <= arena.previous_offset
    /\ arena.previous_offset <= arena.offset
    /\ arena.offset <= arena.capacity

\* The last call was an arena_resize of the most recently allocated block.
ResizedPreviousBlock ==
    /\ arena_call.op = "resize"
    /\ ~arena_call.fatal
    /\ arena_call.old_mem = arena.buf + arena_call.pre_previous_offset

\* C5: arena resize of the most recently allocated block with previous_offset
\* + new_size > capacity returns failure and leaves offset and previous_offset
\* unchanged; in-place growth never sets offset above capacity.
C5_ResizeInPlaceBounded ==
    ResizedPreviousBlock =>
        /\ arena_call.pre_previous_offset + arena_call.size > arena.capacity =>
               /\ arena_call.ret = NULL
               /\ arena.offset = arena_call.pre_offset
               /\ arena.previous_offset = arena_call.pre_previous_offset
        /\ arena.offset > arena_call.pre_offset => arena.offset <= arena.capacity

\* The offset of the smallest multiple of alignment at or above buf + offset.
SmallestAlignedOffset(offset, alignment) ==
    CHOOSE x \in offset .. offset + alignment - 1 :
        (arena.buf + x) % alignment = 0

\* C6: arena allocate_aligned(size, alignment) with size > 0 and a power-of-two
\* alignment succeeds exactly when aligned_offset + size <= capacity, where
\* aligned_offset is the offset of the smallest multiple of alignment at or
\* above buf + offset; on success it returns buf + aligned_offset and sets
\* previous_offset = aligned_offset and offset = aligned_offset + size.
C6_ArenaAllocAligned ==
    (/\ arena_call.op = "alloc_aligned"
     /\ arena_call.size > 0
     /\ alloha_is_power_of_two(arena_call.alignment)) =>
        LET aligned_offset == SmallestAlignedOffset(arena_call.pre_offset,
                                                    arena_call.alignment)
        IN  /\ ~arena_call.fatal
            /\ arena_call.ret # NULL <=>
                   aligned_offset + arena_call.size <= arena.capacity
            /\ arena_call.ret # NULL =>
                   /\ arena_call.ret = arena.buf + aligned_offset
                   /\ arena.previous_offset = aligned_offset
                   /\ arena.offset = aligned_offset + arena_call.size

\* A block was allocated from an offset that is not a multiple of the
\* alignment asked for.
C6_Witness ==
    /\ arena_call.op = "alloc_aligned"
    /\ arena_call.ret # NULL
    /\ arena_call.ret > arena.buf + arena_call.pre_offset

(***************************************************************************)
(* Further claims about the stack allocator, checked under Spec.           *)
(***************************************************************************)
\* The address is null or outside [buf, buf + capacity).
NullOrOutOfRange(block) ==
    block = NULL \/ block < stack.buf \/ block >= stack.buf + stack.capacity

\* C11: stack free_at called with a null address or an address outside
\* [buf, buf + capacity) returns failure and leaves offset, previous_offset
\* and the buffer unchanged, in every reachable state.
C11_ClearAtOutOfRange ==
    [][(stack_call'.op = "clear_at" /\ NullOrOutOfRange(stack_call'.block)) =>
           /\ ~stack_call'.ret_ok
           /\ stack' = stack
           /\ stack_mem' = stack_mem]_vars

\* With blocks live, free_at was given the address that ends the buffer.
C11_Witness ==
    /\ stack_call.op = "clear_at"
    /\ stack_call.block = stack.buf + stack.capacity
    /\ ~stack_call.ret_ok
    /\ Len(stack_live) >= 2

\* C12: stack free_at called with the pointer of a block already deallocated
\* by pop, free_at or reset, with no allocation made since, returns failure
\* and leaves offset and previous_offset unchanged.
C12_ClearAtAlreadyFree ==
    (stack_call.op = "clear_at" /\ stack_call.block \in stack_freed
         /\ stack_call.idx = 0) =>
        /\ ~stack_call.ret_ok
        /\ stack.offset = stack_call.pre_offset
        /\ stack.previous_offset = stack_call.pre_previous_offset

\* free_at was given a deallocated block while an older block is live.
C12_Witness ==
    /\ stack_call.op = "clear_at"
    /\ stack_call.block \in stack_freed
    /\ stack_call.idx = 0
    /\ ~stack_call.ret_ok
    /\ Len(stack_live) >= 1

\* C13: stack pop on an empty stack (offset = 0) returns the empty result and
\* leaves offset and previous_offset at 0; pop on a stack with at least one
\* live block returns success, so the result tells the caller exactly whether
\* a block was deallocated.
C13_PopEmptyOrSuccess ==
    stack_call.op = "pop" =>
        /\ stack_call.n = 0 <=> stack_call.pre_offset = 0
        /\ stack_call.n = 0 =>
               /\ ~stack_call.ret_ok
               /\ stack.offset = 0
               /\ stack.previous_offset = 0
        /\ stack_call.n > 0 =>
               /\ stack_call.ret_ok
               /\ stack.offset < stack_call.pre_offset
               /\ Len(stack_live) = stack_call.n - 1

\* A stack emptied of its blocks was popped once more.
C13_Witness ==
    /\ stack_call.op = "pop"
    /\ ~stack_call.ret_ok
    /\ stack_freed # {}

\* The allocator keeps the block out of its free space.
Protected(b, st) == b.ptr + b.size <= st.buf + st.offset

\* C14: the live blocks are a prefix of the allocation order: no pop, free_at
\* or reset deallocates a block while a block allocated after it remains
\* live (kept out of the free space, or linked from the top of the stack).
C14_LivePrefix ==
    [][\A i, j \in 1 .. Len(stack_live) :
           (i < j /\ ~Protected(stack_live[i], stack')) =>
               /\ ~Protected(stack_live[j], stack')
               /\ (stack_live[j].ptr - stack.buf)
                      \notin header_chain(stack', stack_mem', stack'.previous_offset)]_vars

\* With three blocks live, free_at of the oldest emptied the stack.
C14_Witness ==
    /\ stack_call.op = "clear_at"
    /\ stack_call.ret_ok
    /\ stack_call.idx = 1
    /\ stack_call.n = 3
    /\ stack.offset = 0

(***************************************************************************)
(* Claims about temporary arenas, checked under SpecArenaTmp.              *)
(***************************************************************************)
\* C15: scratch_begin followed by any sequence of allocate, allocate_aligned
\* and resize calls (successful or not) followed by scratch_end on that
\* checkpoint restores offset and previous_offset to exactly their values at
\* scratch_begin.
C15_ScratchRestores ==
    arena_call.op = "tmp_end" =>
        /\ arena.offset = arena_call.o0
        /\ arena.previous_offset = arena_call.p0

\* A checkpoint was ended after calls that moved both offsets past it.
C15_Witness ==
    /\ arena_call.op = "tmp_end"
    /\ arena_call.n = 1
    /\ arena_call.pre_offset > arena.offset
    /\ arena_call.pre_previous_offset > arena.previous_offset
    /\ arena.offset > 0

\* C16: with several checkpoints taken on the same arena, ending them in
\* reverse order of creation restores at each scratch_end the offsets
\* captured by the matching scratch_begin, and ending an outer checkpoint
\* while an inner one is open sets the offsets to the outer checkpoint's
\* values: every open checkpoint keeps the offsets of its own scratch_begin
\* whatever is allocated or ended around it.
C16_NestedScratch ==
    /\ \A k \in 1 .. Len(arena_tmp) :
           /\ arena_tmp[k].tmp.saved_offset = arena_tmp[k].o0
           /\ arena_tmp[k].tmp.saved_previous_offset = arena_tmp[k].p0
    /\ (arena_call.op = "tmp_end" /\ arena_call.n >= 2) =>
           /\ arena.offset = arena_call.o0
           /\ arena.previous_offset = arena_call.p0
           /\ Len(arena_tmp) = arena_call.n - 1

\* The outer of two checkpoints was ended while the inner one, taken at
\* higher offsets, was still open.
C16_Witness ==
    /\ arena_call.op = "tmp_end"
    /\ arena_call.n = 2
    /\ arena_call.idx = 1
    /\ Len(arena_tmp) = 1
    /\ arena_tmp[1].o0 > arena.offset
    /\ arena_call.pre_offset > arena_tmp[1].o0

(***************************************************************************)
(* Claims about reset, checked under SpecReplay.                           *)
(***************************************************************************)
\* C17: running a sequence of arena allocation requests, calling reset and
\* running the same sequence again yields for every request the same
\* success or failure, the same returned pointer and the same offset and
\* previous_offset as the first run; after requests that all succeed,
\* offset <= capacity.
C17_ResetReplays ==
    /\ (arena_replay.phase = "second" /\ arena_replay.pos >= 1) =>
           LET t == arena_replay.trace[arena_replay.pos]
           IN  /\ arena_call.ret = t.ret
               /\ arena.offset = t.offset
               /\ arena.previous_offset = t.previous_offset
    /\ (arena_replay.phase = "first"
            /\ \A i \in 1 .. Len(arena_replay.trace) :
                   arena_replay.trace[i].ret # NULL) =>
           arena.offset <= arena.capacity

\* Three requests, of which one failed and another was moved up to its
\* alignment, were all repeated after the reset.
C17_Witness ==
    /\ arena_replay.phase = "second"
    /\ arena_replay.pos = Len(arena_replay.trace)
    /\ arena_replay.pos >= 3
    /\ \E i \in 1 .. arena_replay.pos : arena_replay.trace[i].ret = NULL
    /\ \E i \in 2 .. arena_replay.pos :
           /\ arena_replay.trace[i].ret # NULL
           /\ arena_replay.trace[i].previous_offset > arena_replay.trace[i - 1].offset

(***************************************************************************)
(* Claims about destruction, checked under SpecLife.                       *)
(***************************************************************************)
\* C18: the raw buffer of an allocator (arena or stack) is released exactly
\* once if the allocator was constructed in owned mode and destroy is called,
\* during the first destroy; it is never released by an allocator constructed
\* in borrowed mode, and a repeated destroy never releases a second time.
C18_ReleasedOnce ==
    /\ heap.arena_freed =
           IF heap.arena_owned /\ heap.arena_destroys >= 1 THEN 1 ELSE 0
    /\ heap.stack_freed =
           IF heap.stack_owned /\ heap.stack_destroys >= 1 THEN 1 ELSE 0

\* An arena that owned its buffer was destroyed twice, and so was a stack
\* that owned its buffer.
C18_Witness ==
    /\ heap.arena_owned /\ heap.arena_destroys >= 2 /\ heap.arena_freed = 1
    /\ heap.stack_owned /\ heap.stack_destroys >= 2 /\ heap.stack_freed = 1

\* C19: after arena destroy returns, buf is null and capacity, offset,
\* previous_offset and the ownership flag are all zero, whether the arena
\* owned or borrowed its buffer.
C19_DestroyZeroes ==
    arena_call.op = "destroy" =>
        /\ arena.buf = NULL
        /\ arena.capacity = 0
        /\ arena.offset = 0
        /\ arena.previous_offset = 0
        /\ ~arena.memory_owner

(***************************************************************************)
(* Further claims about arena_resize, checked under SpecArena.             *)
(***************************************************************************)
\* The step is an arena_resize, not stopped by an assertion, of the block at
\* previous_offset.
ResizesPreviousBlock ==
    /\ arena_call'.op = "resize"
    /\ ~arena_call'.fatal
    /\ arena_call'.old_mem = arena.buf + arena.previous_offset

\* What C20 states of such a step: the same pointer comes back, offset becomes
\* previous_offset + new_size, and nothing else changes.
ResizedInPlace ==
    /\ arena_call'.ret = arena_call'.old_mem
    /\ arena' = [arena EXCEPT !.offset = arena.previous_offset + arena_call'.size]
    /\ arena_mem' = arena_mem

\* C20 as stated: arena resize of the most recently allocated block returns the
\* same pointer, changes only offset (to previous_offset + new_size), and
\* leaves previous_offset and every byte of the buffer unchanged, for both
\* growing and shrinking.
C20_ResizeLastBlock ==
    [][ResizesPreviousBlock => ResizedInPlace]_vars

\* C20 amended: the same, for a resize given a power-of-two alignment and a
\* new size that differs from the old size it states.
C20_ResizeLastBlockAligned ==
    [][(/\ ResizesPreviousBlock
        /\ alloha_is_power_of_two(arena_call'.alignment)
        /\ arena_call'.size # arena_call'.old_size) => ResizedInPlace]_vars

\* The most recent block, not the first of the buffer, was grown in place.
C20_Witness ==
    /\ arena_call.op = "resize"
    /\ arena_call.old_mem = arena.buf + arena_call.pre_previous_offset
    /\ arena_call.pre_previous_offset > 0
    /\ arena_call.size > arena_call.old_size
    /\ arena_call.ret = arena_call.old_mem
    /\ arena.offset > arena_call.pre_offset

ResizesInvalid ==
    /\ arena_call'.op = "resize"
    /\ arena_call'.old_mem # NULL
    /\ \/ arena_call'.old_mem < arena.buf
       \/ arena_call'.old_mem >= arena.buf + arena.capacity
       \/ ~alloha_is_power_of_two(arena_call'.alignment)

\* What C22 states of such a step: failure is returned and the offsets are
\* left as they were.
ResizeRefused ==
    /\ ~arena_call'.fatal
    /\ arena_call'.ret = NULL
    /\ arena' = arena

ResizesEarlierBlock ==
    /\ arena_call'.op = "resize"
    /\ arena_call'.old_mem # NULL
    /\ arena.buf <= arena_call'.old_mem
    /\ (arena_call'.old_mem - arena.buf) + arena_call'.old_size
           <= arena.previous_offset

\* What C23 states of such a step: the pointer returned and the offsets left
\* are those of arena_alloc_aligned(new_size, alignment), the first
\* min(old_size, new_size) bytes of the new block are the bytes of the old
\* block, and the bytes of the old block are as they were.
MovedToFreshBlock ==
    LET e   == arena_alloc_aligned(arena, arena_call'.size, arena_call'.alignment)
        n   == IF arena_call'.old_size < arena_call'.size
               THEN arena_call'.old_size ELSE arena_call'.size
        src == arena_call'.old_mem - arena.buf
        dst == arena_call'.ret - arena.buf
    IN  /\ arena_call'.fatal = e.fatal
        /\ arena_call'.ret = e.ret
        /\ arena' = e.arena
        /\ arena_call'.ret # NULL =>
               \A i \in 0 .. n - 1 : arena_mem'[dst + i] = arena_mem[src + i]
        /\ \A i \in 0 .. arena_call'.old_size - 1 :
               arena_mem'[src + i] = arena_mem[src + i]

\* C23 as stated: arena resize of a block inside the buffer that is not the
\* most recently allocated block allocates a fresh block exactly as
\* allocate_aligned(new_size, alignment) would (same returned offset,
\* previous_offset and offset), makes the first min(old_size, new_size) bytes
\* of the new block equal to the bytes of the old block, and leaves the old
\* block's bytes unchanged.
C23_ResizeMoves ==
    [][ResizesEarlierBlock => MovedToFreshBlock]_vars

\* C23 amended: the same, for a resize given a new size that differs from the
\* old size it states and a power-of-two alignment, when the new block fits.
C23_ResizeMovesWhenFits ==
    [][(/\ ResizesEarlierBlock
        /\ arena_call'.size # arena_call'.old_size
        /\ alloha_is_power_of_two(arena_call'.alignment)
        /\ arena_alloc_aligned(arena, arena_call'.size,
                               arena_call'.alignment).ret # NULL)
       => MovedToFreshBlock]_vars

\* The first block of the buffer, a word and a half long with a block above
\* it, was moved above that block and shortened: the new block holds the
\* first bytes of the old one, which still holds them.
C23_Witness ==
    /\ arena_call.op = "resize"
    /\ arena_call.old_mem = arena.buf
    /\ arena_call.old_size = 12
    /\ arena_call.size = 4
    /\ arena_call.pre_previous_offset >= 12
    /\ arena_call.ret = arena.buf + arena.previous_offset
    /\ arena.previous_offset > arena_call.pre_previous_offset
    /\ \A i \in 0 .. 3 : arena_mem[arena.previous_offset + i] = i + 1
    /\ \A i \in 0 .. 11 : arena_mem[i] = i + 1

\* The step is an arena_resize that takes the moving path (the sizes differ,
\* the alignment is a power of two, the block lies inside the buffer and is
\* not the most recent one) and whose fresh block of new_size does not fit.
ResizeMoveDoesNotFit ==
    /\ arena_call'.op = "resize"
    /\ arena_call'.old_mem # NULL
    /\ arena_call'.size # arena_call'.old_size
    /\ arena_call'.size # 0
    /\ alloha_is_power_of_two(arena_call'.alignment)
    /\ arena_resize_in_buffer(arena, arena_call'.old_mem)
    /\ arena_call'.old_mem # arena.buf + arena.previous_offset
    /\ arena_alloc_aligned(arena, arena_call'.size,
                           arena_call'.alignment).ret = NULL

\* C30: when arena resize takes the relocating path and the fresh allocation
\* of new_size does not fit, resize returns failure, copies no bytes to any
\* destination, and leaves offset, previous_offset and the buffer contents
\* unchanged.
C30_ResizeMoveFails ==
    [][ResizeMoveDoesNotFit
       => (/\ ~arena_call'.fatal
           /\ arena_call'.ret = NULL
           /\ arena' = arena
           /\ arena_mem' = arena_mem)]_vars

(***************************************************************************)
(* Claims about align_forward, checked under SpecCoreWide.                 *)
(***************************************************************************)
\* C24 as stated: for every address a and every power-of-two k,
\* align_forward(a, k) is a multiple of k, is >= a and < a + k, and
\* align_forward(align_forward(a, k), k) = align_forward(a, k).
C24_AlignForward ==
    core_out.op = "align_forward" =>
        /\ core_out.val % core_in.alignment = 0
        /\ core_out.val >= core_in.ptr
        /\ core_out.val < core_in.ptr + core_in.alignment
        /\ align_forward(core_out.val, core_in.alignment) = core_out.val

\* C24 amended: the result is a multiple of k and align_forward leaves it as
\* it is, for every address a; it is >= a and < a + k for every address a
\* that is at most 2^w - k.
C24_AlignForwardBelowTop ==
    core_out.op = "align_forward" =>
        /\ core_out.val % core_in.alignment = 0
        /\ align_forward(core_out.val, core_in.alignment) = core_out.val
        /\ core_in.ptr <= WordMod - core_in.alignment =>
               /\ core_out.val >= core_in.ptr
               /\ core_out.val < core_in.ptr + core_in.alignment

\* An address among the last of the address space, not a multiple of k, was
\* moved forward to the last multiple of k.
C24_Witness ==
    /\ core_out.op = "align_forward"
    /\ core_in.ptr \in TopAddrs
    /\ core_in.ptr % core_in.alignment # 0
    /\ core_out.val > core_in.ptr
    /\ core_out.val = WordMod - core_in.alignment

(***************************************************************************)
(* Claims about padding_with_header, checked under SpecCore.               *)
(***************************************************************************)
\* Whether a header of header_size bytes aligned to header_alignment fits
\* immediately before addr + padding, with addr + padding aligned to alignment.
HeaderFits(padding) ==
    /\ padding >= core_in.header_size
    /\ (core_in.ptr + padding) % core_in.alignment = 0
    /\ (core_in.ptr + padding - core_in.header_size) % core_in.header_alignment = 0

\* C25: padding_with_header returns the smallest non-negative padding for
\* which a header of header_size bytes aligned to header_alignment fits
\* immediately before addr + padding and addr + padding is aligned to
\* alignment: the value returned satisfies the three conditions and no
\* smaller value does.
C25_SmallestPadding ==
    core_out.op = "padding_with_header" =>
        /\ HeaderFits(core_out.val)
        /\ \A q \in 0 .. core_out.val - 1 : ~HeaderFits(q)

(***************************************************************************)
(* Claims about allocation requests, checked under SpecRequests, Spec and  *)
(* SpecArena.                                                              *)
(***************************************************************************)
\* C26: a request of size 0 to arena or stack allocate_aligned never returns
\* a non-null pointer and never changes offset or previous_offset: it ends
\* either in a fatal precondition failure or in a no-op that reports failure.
C26_ZeroSizeRequest ==
    /\ (stack_call.op \in {"alloc_aligned", "alloc"} /\ stack_call.size = 0) =>
           /\ stack_call.ret_ptr = NULL
           /\ stack.offset = stack_call.pre_offset
           /\ stack.previous_offset = stack_call.pre_previous_offset
    /\ (arena_call.op \in {"alloc_aligned", "alloc"} /\ arena_call.size = 0) =>
           /\ arena_call.ret = NULL
           /\ arena.offset = arena_call.pre_offset
           /\ arena.previous_offset = arena_call.pre_previous_offset

\* With room left and blocks handed out by both allocators, each was asked
\* for no bytes: the stack reported failure and the arena stopped the program.
C26_Witness ==
    /\ stack_call.op = "alloc_aligned"
    /\ stack_call.size = 0
    /\ stack_call.ret_ptr = NULL
    /\ stack.offset > 0
    /\ stack.offset + HeaderSize + DefaultAlignment <= stack.capacity
    /\ arena_call.op = "alloc_aligned"
    /\ arena_call.size = 0
    /\ arena_call.fatal
    /\ arena.offset > 0
    /\ arena.offset < arena.capacity

\* The step is a stack_alloc_aligned or stack_alloc call.
StackAllocates == stack_call'.op \in {"alloc_aligned", "alloc"}

\* Whether the request of the step, with its padding, exceeds the room left:
\* padding + size > capacity - offset.
StackRequestTooLarge ==
    padding_with_header(stack.buf + stack.offset, stack_call'.alignment,
                        HeaderSize, HeaderAlign) + stack_call'.size
        > stack.capacity - stack.offset

\* What C27 states of a failed call: null is returned and the offsets and
\* every byte of the buffer are left as they were.
StackAllocFailedCleanly ==
    stack_call'.ret_ptr = NULL =>
        /\ ~stack_call'.ret_ok
        /\ stack' = stack
        /\ stack_mem' = stack_mem

\* C27 as stated: stack allocate_aligned fails exactly when
\* padding + size > capacity - offset; a failed call returns null and leaves
\* offset, previous_offset and every byte of the buffer (no header is
\* written) unchanged.
C27_StackAllocFails ==
    [][StackAllocates =>
           /\ (stack_call'.ret_ptr = NULL) <=> StackRequestTooLarge
           /\ StackAllocFailedCleanly]_vars

\* C27 amended: stack allocate_aligned fails exactly when size is 0 or
\* padding + size > capacity - offset, and a failed call changes nothing.
C27_StackAllocFailsOrEmpty ==
    [][StackAllocates =>
           /\ (stack_call'.ret_ptr = NULL)
                  <=> (stack_call'.size = 0 \/ StackRequestTooLarge)
           /\ StackAllocFailedCleanly]_vars

\* With three blocks live and room left in the buffer, but less than a word
\* and its header need, a request for a word failed.
C27_Witness ==
    /\ stack_call.op = "alloc_aligned"
    /\ stack_call.size = 8
    /\ stack_call.ret_ptr = NULL
    /\ Len(stack_live) = 3
    /\ stack.offset = stack_call.pre_offset
    /\ stack.offset < stack.capacity

\* The step is an arena_alloc_aligned or arena_alloc call.
ArenaAllocates == arena_call'.op \in {"alloc_aligned", "alloc"}

\* Whether the request of the step, placed at the next aligned offset, ends
\* past the capacity of the buffer.
ArenaRequestDoesNotFit ==
    /\ arena_call'.size # 0
    /\ (align_forward(arena.buf + arena.offset, arena_call'.alignment) - arena.buf)
           + arena_call'.size > arena.capacity

\* C28: an arena allocate_aligned call that fails for lack of capacity
\* returns null and leaves offset and previous_offset unchanged; the backing
\* buffer's capacity never changes as a result of any allocation request.
C28_ArenaAllocFails ==
    [][/\ (ArenaAllocates /\ ArenaRequestDoesNotFit) =>
              /\ arena_call'.ret = NULL
              /\ ~arena_call'.fatal
              /\ arena' = arena
       /\ (ArenaAllocates /\ arena_call'.ret = NULL) => arena' = arena
       /\ arena'.capacity = arena.capacity
       /\ arena'.buf = arena.buf]_vars

\* With blocks handed out and room left, but less than the request, a request
\* for a word and a half failed.
C28_Witness ==
    /\ arena_call.op = "alloc_aligned"
    /\ arena_call.size = 12
    /\ arena_call.ret = NULL
    /\ ~arena_call.fatal
    /\ arena_call.pre_previous_offset > 0
    /\ arena.offset = arena_call.pre_offset
    /\ arena.offset < arena.capacity
    /\ arena.capacity = ArenaCapacity

\* A stack_alloc_aligned or stack_alloc call has just handed out a block.
StackAllocSucceeded ==
    stack_call.op \in {"alloc_aligned", "alloc"} /\ stack_call.ret_ptr # NULL

\* The offset of the block handed out before the one just allocated (0 when
\* there is none).
PreviousBlockOffset ==
    IF Len(stack_live) >= 2
    THEN stack_live[Len(stack_live) - 1].ptr - stack.buf
    ELSE 0

\* What C29 states of the block just allocated, for a padding: the header
\* below the block records it, the new previous_offset is o + padding, and the
\* header's previous_offset is the offset of the previous block.
RecordsPadding(padding) ==
    LET h == stack_call.ret_ptr - HeaderSize
    IN  /\ HeaderSlots(h) \subseteq DOMAIN stack_mem
        /\ stack_mem[h] = padding
        /\ stack.previous_offset = stack_call.pre_offset + padding
        /\ stack_mem[h + 16] = PreviousBlockOffset

\* The distance from offset o to the next multiple of k (0 at a multiple).
FillerTo(o, k) == (k - (o % k)) % k

\* C29 as stated: for a stack allocation made when the free offset is o
\* (buffer base aligned), the padding recorded in the new block's header
\* equals header_size when o is a multiple of the requested alignment and
\* (alignment - o mod alignment) + header_size otherwise, the new
\* previous_offset equals o + that padding, and the header's previous_offset
\* equals the previous block's user offset.
C29_RecordedPadding ==
    StackAllocSucceeded =>
        LET o == stack_call.pre_offset
            k == stack_call.alignment
        IN  RecordsPadding(IF o % k = 0 THEN HeaderSize
                           ELSE (k - (o % k)) + HeaderSize)

\* C29 amended: the padding is the filler from o to the next multiple of the
\* requested alignment, plus the filler from there to the next multiple of
\* the header's alignment, plus header_size.
C29_RecordedPaddingHeaderAligned ==
    StackAllocSucceeded =>
        LET o  == stack_call.pre_offset
            p1 == FillerTo(o, stack_call.alignment)
            p2 == FillerTo(o + p1, HeaderAlign)
        IN  RecordsPadding(p1 + p2 + HeaderSize)

\* A block was allocated above another one with an alignment of 4, from an
\* offset that is neither a multiple of 4 nor of the header's alignment, and
\* filler was needed for both.
C29_Witness ==
    /\ StackAllocSucceeded
    /\ Len(stack_live) >= 2
    /\ stack_call.alignment = 4
    /\ stack_call.pre_offset % 4 # 0
    /\ (stack_call.pre_offset + FillerTo(stack_call.pre_offset, 4)) % HeaderAlign # 0
    /\ stack_mem[stack_call.ret_ptr - HeaderSize] > HeaderSize + 4

(***************************************************************************)
(* Claims about the movement of the arena's offset, checked under          *)
(* SpecArenaAll.                                                           *)
(***************************************************************************)
\* The step is an arena_resize of the most recent block to fewer bytes than
\* lie between it and the free offset.
ShrinksPreviousBlock ==
    /\ arena_call'.op = "resize"
    /\ arena_call'.old_mem = arena.buf + arena.previous_offset
    /\ arena_call'.size < arena.offset - arena.previous_offset

\* C31: the arena is growing-only: allocate and allocate_aligned never
\* decrease offset and strictly increase it on success; offset decreases only
\* through reset, scratch_end, or a shrinking in-place resize of the most
\* recent block.
C31_GrowingOnly ==
    [][/\ ArenaAllocates =>
              /\ arena'.offset >= arena.offset
              /\ arena_call'.ret # NULL => arena'.offset > arena.offset
       /\ arena'.offset < arena.offset =>
              \/ arena_call'.op \in {"free_all", "tmp_end"}
              \/ ShrinksPreviousBlock]_vars

\* The most recent block, not the first of the buffer, was shortened in
\* place, and the free offset moved down to its new end.
C31_Witness ==
    /\ arena_call.op = "resize"
    /\ arena_call.old_mem = arena.buf + arena.previous_offset
    /\ arena.previous_offset > 0
    /\ arena_call.size = 4
    /\ arena_call.ret = arena_call.old_mem
    /\ arena.offset = arena.previous_offset + 4
    /\ arena.offset < arena_call.pre_offset

\* The bytes of a block of the record: offsets off .. off + size - 1.
BlockBytes(b) == b.off .. (b.off + b.size - 1)

\* C32: in every reachable state of the arena, the blocks returned by the
\* successful allocate, allocate_aligned and resize calls since the last reset
\* or scratch_end, each with its current size, occupy pairwise disjoint byte
\* ranges that lie inside [0, capacity) and below offset.
C32_BlocksDisjoint ==
    arena_live.on =>
        \A i \in 1 .. Len(arena_live.blocks) :
            LET b == arena_live.blocks[i]
            IN  /\ b.off >= 0
                /\ b.off + b.size <= arena.capacity
                /\ b.off + b.size <= arena.offset
                /\ \A j \in 1 .. Len(arena_live.blocks) :
                       i # j => BlockBytes(b) \cap BlockBytes(arena_live.blocks[j]) = {}

\* The offsets of a live block's header and of its user memory.
HeaderRange(b) ==
    (b.ptr - stack.buf - HeaderSize) .. (b.ptr - stack.buf - 1)

UserRange(b) == (b.ptr - stack.buf) .. (b.ptr - stack.buf + b.size - 1)

\* The offsets between the top of the stack when b was requested and b.
PaddingRegion(b) == b.o0 .. (b.ptr - stack.buf - 1)

\* C33: each live block's header occupies [user - header_size, user) inside
\* that block's own padding region; the headers and user ranges of all live
\* blocks are pairwise disjoint, no header overlaps an earlier block's user
\* memory, and all of them lie inside [0, offset) with offset <= capacity.
C33_StackLayout ==
    /\ stack.offset <= stack.capacity
    /\ \A i \in 1 .. Len(stack_live) :
           LET b == stack_live[i]
           IN  /\ HeaderRange(b) \subseteq PaddingRegion(b)
               /\ HeaderRange(b) \cup UserRange(b) \subseteq 0 .. (stack.offset - 1)
               /\ \A j \in 1 .. Len(stack_live) :
                      i # j =>
                          LET c == stack_live[j]
                          IN  (HeaderRange(b) \cup UserRange(b))
                                  \cap (HeaderRange(c) \cup UserRange(c)) = {}

\* Three live blocks, the newest with filler bytes below its header.
C33_Witness ==
    /\ Len(stack_live) = 3
    /\ stack_call.op \in {"alloc", "alloc_aligned"}
    /\ stack_call.ret_ptr = stack_live[3].ptr
    /\ stack_live[3].ptr - stack.buf - HeaderSize > stack_live[3].o0

\* The walks along the headers' previous_offset links that start at offset p
\* and take at most fuel links: the offsets visited, in the order visited.
RECURSIVE chain_walks(_, _, _, _)
chain_walks(st, m, p, fuel) ==
    IF p = 0 THEN {<<>>}
    ELSE IF fuel = 0 THEN {<<p>>}
    ELSE LET top == alloha_ptr_add(st.buf, p)
         IN  UNION {{<<p>> \o w :
                        w \in chain_walks(st, m, h.previous_offset, fuel - 1)} :
                    h \in load_header(m, alloha_ptr_sub(top, HeaderSize))}

\* How many times in a row stack_pop may succeed before it reports an empty
\* stack, counting at most fuel + 1 of them.
RECURSIVE pop_counts(_, _, _)
pop_counts(st, m, fuel) ==
    IF stack_pop_is_empty(st) THEN {0}
    ELSE IF fuel = 0 THEN {1}
    ELSE UNION {{1 + n : n \in pop_counts(r.stack, m, fuel - 1)} :
                   r \in stack_pop(st, m)}

\* The offsets of the live blocks, newest first.
LiveOffsetsNewestFirst ==
    [i \in 1 .. Len(stack_live) |->
        stack_live[Len(stack_live) + 1 - i].ptr - stack.buf]

\* C34: following the headers' previous_offset links from previous_offset
\* visits strictly decreasing offsets, exactly the live blocks from newest to
\* oldest, and reaches 0 after as many steps as there are live blocks;
\* repeating pop succeeds exactly that many times and then reports empty.
C34_HeaderChain ==
    /\ chain_walks(stack, stack_mem, stack.previous_offset, Len(stack_live))
           = {LiveOffsetsNewestFirst}
    /\ \A i \in 1 .. Len(stack_live) - 1 :
           LiveOffsetsNewestFirst[i] > LiveOffsetsNewestFirst[i + 1]
    /\ pop_counts(stack, stack_mem, Len(stack_live)) = {Len(stack_live)}

\* Three live blocks, the second of one byte, the newest with filler bytes
\* below its header, and nothing deallocated since it was handed out.
C34_Witness ==
    /\ Len(stack_live) = 3
    /\ stack_freed = {}
    /\ stack_call.op \in {"alloc", "alloc_aligned"}
    /\ stack_call.ret_ptr = stack_live[3].ptr
    /\ stack_live[3].ptr - stack.buf - HeaderSize > stack_live[3].o0
    /\ stack_live[2].size = 1

\* stack_pop as the earlier version of the allocator has it: the stack is
\* taken for empty when previous_offset is 0, and the call returns nothing.
\* The allocators the call may leave.
stack_pop_by_previous_offset(st, m) ==
    IF st.previous_offset = 0
    THEN {st}
    ELSE LET last_addr == alloha_ptr_add(st.buf, st.previous_offset)
         IN  {stack_pop_offsets(st, h) :
                 h \in load_header(m, alloha_ptr_sub(last_addr, HeaderSize))}

\* C35: offset is 0 exactly when previous_offset is 0, so the emptiness test
\* 'offset == 0' and the emptiness test 'previous_offset == 0' accept and
\* reject the same states, and the two versions of pop leave the same offsets.
C35_EmptinessTests ==
    /\ (stack.offset = 0) <=> (stack.previous_offset = 0)
    /\ stack_pop_by_previous_offset(stack, stack_mem)
           = {r.stack : r \in stack_pop(stack, stack_mem)}

\* The only live block was just popped, from a stack that held bytes.
C35_Witness ==
    /\ stack_call.op = "pop"
    /\ stack_call.ret_ok
    /\ stack_call.pre_offset > 0
    /\ stack_call.n = 1
    /\ stack.offset = 0

\* C36 (as stated): with checkpoints ended innermost first and no reset while
\* one is held, at every temporary_arena_end the offset before the call is at
\* least the checkpoint's saved offset, so the call never increases offset,
\* whatever allocate and resize calls were made since the checkpoint.
C36_ScratchEndNeverRaises ==
    [][arena_call'.op = "tmp_end" =>
           /\ arena.offset >= arena_tmp[arena_call'.idx].tmp.saved_offset
           /\ arena'.offset <= arena.offset]_vars

\* No held checkpoint has the offset below its saved offset, nor a checkpoint
\* taken after it with a smaller saved offset.
ScopesIntact ==
    /\ \A k \in 1 .. Len(arena_tmp) :
           arena.offset >= arena_tmp[k].tmp.saved_offset
    /\ \A k \in 1 .. Len(arena_tmp) - 1 :
           arena_tmp[k].tmp.saved_offset <= arena_tmp[k + 1].tmp.saved_offset

\* The step is a resize that shrinks, where it lies, a block that begins below
\* the saved offset of a held checkpoint: a block handed out before it.
ShrinksBlockBelowScope ==
    /\ ShrinksPreviousBlock
    /\ \E k \in 1 .. Len(arena_tmp) :
           arena.previous_offset < arena_tmp[k].tmp.saved_offset

\* C36 (amended): as long as no resize shrinks in place a block handed out
\* before a held checkpoint, the offset stays at or above every held
\* checkpoint's saved offset, and temporary_arena_end does not increase it.
C36_ScratchEndInScopeBlocks ==
    [][(ScopesIntact /\ ~ShrinksBlockBelowScope) =>
           /\ ScopesIntact'
           /\ arena_call'.op = "tmp_end" =>
                  /\ arena.offset >= arena_tmp[arena_call'.idx].tmp.saved_offset
                  /\ arena'.offset <= arena.offset]_vars

\* The inner of two checkpoints was just ended and gave back bytes allocated
\* after it, above the saved offset of the outer one.
C36_Witness ==
    /\ arena_call.op = "tmp_end"
    /\ arena_call.idx = 2
    /\ Len(arena_tmp) = 1
    /\ arena_call.pre_offset > arena.offset
    /\ arena.offset > arena_tmp[1].tmp.saved_offset
    /\ arena_tmp[1].tmp.saved_offset > 0

\* C37: in arithmetic modulo 2^w, arena and stack allocate_aligned never
\* succeed for a size larger than the space that remained, sizes for which
\* aligned_offset + size or padding + size wraps included, and no request of
\* any size leaves offset above capacity.
C37_NoOversizedSuccess ==
    /\ (arena_call.op = "alloc_aligned" /\ arena_call.ret # NULL) =>
           arena_call.size <= arena.capacity - arena_call.pre_offset
    /\ (stack_call.op = "alloc_aligned" /\ stack_call.ret_ok) =>
           stack_call.size <= stack.capacity - stack_call.pre_offset
    /\ arena.offset <= arena.capacity
    /\ stack.offset <= stack.capacity

\* C38: usize_wrap_sub(lhs, rhs) returns lhs - rhs when lhs > rhs and 0
\* otherwise, for all values of an unsigned word, those at or above 2^(w-1)
\* included.
C38_WrapSub ==
    core_out.op = "usize_wrap_sub" =>
        core_out.val = IF core_in.lhs > core_in.rhs
                       THEN core_in.lhs - core_in.rhs
                       ELSE 0

=============================================================================
